---- MODULE Spec2Model ----
(***************************************************************************)
(* Model of the product-configurator backend: the styles API               *)
(* (app/api/v1/routes/styles.py) and the jobs API                          *)
(* (app/api/v1/routes/jobs.py) over the tables declared in app/db/models.  *)
(*                                                                         *)
(* Every handler is translated statement by statement into a step          *)
(* function (Exec) over the committed tables and the request's own         *)
(* session state.  A request that runs alone is the iteration of its       *)
(* steps (Run); concurrent requests interleave their steps.  The session   *)
(* is created with autoflush=False and expire_on_commit=False              *)
(* (app/db/session.py), so attribute assignments reach the database only   *)
(* at flush()/commit(), and a request that raises leaves nothing behind    *)
(* of what it had not committed.                                           *)
(***************************************************************************)
EXTENDS Integers, FiniteSets, Sequences, TLC

\* ------------------------------------------------------------------ bounds
MaxStyles == 2      \* style ids (uuid4 values) ever generated
MaxReq == 2         \* requests in flight at once (concurrent specification)
MaxConfigurations == 1  \* configuration ids ever generated from the empty database
MaxJobs == 2        \* job ids ever generated
MaxServed == 2      \* requests served in the specification of the field updates

\* --------------------------------------------------------------- constants
None == "None"                      \* Python None, for the string-valued fields
NoId == 0                           \* no style id (None for exclude_style_id)
NoOrder == -1                       \* display_order not supplied
Products == {"p1", "p2"}            \* rows of the products table
MissingProduct == "p0"              \* a uuid with no product row
StyleIds == 1 .. MaxStyles
Names == {"a", "b"}
BadSchema == "bad"                  \* a string _parse_json_schema rejects
BadFile == "bad"                    \* an upload _validate_blend_file rejects

HTTP_200 == 200
HTTP_201 == 201
HTTP_204 == 204
HTTP_400 == 400
HTTP_404 == 404
HTTP_409 == 409
HTTP_422 == 422
HTTP_500 == 500

VARIABLES
    styles,          \* committed rows of table styles: id -> row
    nextStyleId,     \* the next fresh style id
    configurations,  \* committed rows of table configurations: id -> row
    nextConfigurationId,  \* the next fresh configuration id
    jobs,            \* committed rows of table jobs: id -> row
    nextJobId,       \* the next fresh job id
    reqs,            \* the requests in flight: slot -> request
    served,          \* the number of requests served, where the specification counts them
    resp             \* the last response sent

vars ==
    <<styles, nextStyleId, configurations, nextConfigurationId, jobs, nextJobId, reqs, served, resp>>

\* ------------------------------------------------------------------ tables

\* A row of table styles (db/models/style.py); NoStyle stands for "no object".
NoStyle ==
    [product_id |-> None, name |-> None, description |-> None,
     template_blob_path |-> <<>>, customization_schema |-> None,
     is_default |-> FALSE, display_order |-> 0]

\* blob_service.upload_file returns "{container}/{blob_name}", blob_name = "{style.id}.blend"
BlobPath(id) == <<"blender-templates", id>>

StylesOf(st, p) == {i \in DOMAIN st : st[i].product_id = p}
DefaultsOf(st, p) == {i \in DOMAIN st : st[i].product_id = p /\ st[i].is_default}

\* UniqueConstraint("product_id", "name")
UqStylesProductIdName(st) ==
    \A i, j \in DOMAIN st :
        (i # j /\ st[i].product_id = st[j].product_id) => st[i].name # st[j].name

\* Index("ix_styles_product_default", "product_id", unique=True, where is_default)
IxStylesProductDefaultMissing(st) == TRUE
IxStylesProductDefault(st) ==
    \A i, j \in DOMAIN st :
        (i # j /\ st[i].product_id = st[j].product_id) => ~(st[i].is_default /\ st[j].is_default)

\* Whether the database enforces the foreign keys.  PostgreSQL does; SQLite,
\* the default database_url and the database of the tests, does so only after
\* PRAGMA foreign_keys=ON, which the application never issues.
ForeignKeys == BOOLEAN

\* Configuration.style_id: ForeignKey("styles.id", ondelete="RESTRICT")
FkStyleRestrict(st, cf) == \A c \in DOMAIN cf : cf[c].style_id \in DOMAIN st

\* str.lower() on the is_default form field
LowerMissing(s) == s
Lower(s) == IF s \in {"True", "TRUE", "true"} THEN "true"
            ELSE IF s \in {"False", "false"} THEN "false" ELSE s

\* ---------------------------------------------------------------- requests

Idle ==
    [op |-> "idle", pc |-> "idle", code |-> 0,
     product_id |-> None, style_id |-> NoId, name |-> None, description |-> None,
     customization_schema |-> None, is_default |-> None, display_order |-> NoOrder,
     file |-> None, upload_ok |-> TRUE, delete_ok |-> TRUE, blob_log |-> <<>>,
     fk |-> TRUE,
     style |-> NoStyle, loaded |-> NoStyle, inserted |-> FALSE,
     should_be_default |-> FALSE, cleared |-> {}]

Request(op, args) ==
    [Idle EXCEPT !.op = op, !.pc = "start",
        !.product_id = args.product_id, !.style_id = args.style_id,
        !.name = args.name, !.description = args.description,
        !.customization_schema = args.customization_schema,
        !.is_default = args.is_default, !.display_order = args.display_order,
        !.file = args.file, !.upload_ok = args.upload_ok, !.delete_ok = args.delete_ok]

\* The result of one step: the committed table, the id counter, the request.
Res(st, nid, r) == [st |-> st, nid |-> nid, r |-> r]

\* The handler raises: the session is closed without commit (get_db), so the
\* pending statements of the request are rolled back.
Raise(st, nid, r, code) ==
    Res(st, nid, [r EXCEPT !.pc = "done", !.code = code, !.cleared = {}, !.inserted = FALSE])

Return(st, nid, r, code) ==
    Res(st, nid, [r EXCEPT !.pc = "done", !.code = code, !.cleared = {}, !.inserted = FALSE])

\* ------------------------------------------------------- flush and commit

\* The rows after the request's pending bulk UPDATE (_unset_other_defaults)
AfterUnset(st, r) ==
    [i \in DOMAIN st |-> IF i \in r.cleared THEN [st[i] EXCEPT !.is_default = FALSE] ELSE st[i]]

\* The unit of work writes the columns of the object that differ from what was loaded.
MergeRow(row, r) ==
    [product_id |-> row.product_id,
     name |-> IF r.style.name # r.loaded.name THEN r.style.name ELSE row.name,
     description |-> IF r.style.description # r.loaded.description
                     THEN r.style.description ELSE row.description,
     template_blob_path |-> IF r.style.template_blob_path # r.loaded.template_blob_path
                            THEN r.style.template_blob_path ELSE row.template_blob_path,
     customization_schema |-> IF r.style.customization_schema # r.loaded.customization_schema
                              THEN r.style.customization_schema ELSE row.customization_schema,
     is_default |-> IF r.style.is_default # r.loaded.is_default
                    THEN r.style.is_default ELSE row.is_default,
     display_order |-> IF r.style.display_order # r.loaded.display_order
                       THEN r.style.display_order ELSE row.display_order]

\* An UPDATE of the object's row that matches no row raises StaleDataError.
Stale(st, r) == ~r.inserted /\ r.style # r.loaded /\ r.style_id \notin DOMAIN st

Flushed(st, r) ==
    LET u == AfterUnset(st, r) IN
    IF r.inserted
    THEN [i \in DOMAIN u \cup {r.style_id} |-> IF i = r.style_id THEN r.style ELSE u[i]]
    ELSE IF r.style # r.loaded /\ r.style_id \in DOMAIN u
    THEN [u EXCEPT ![r.style_id] = MergeRow(u[r.style_id], r)]
    ELSE u

\* The table after the first write of the transaction; the statements are
\* issued in this order: the bulk UPDATE of _unset_other_defaults is executed
\* when it is called, the INSERT or UPDATE of the style's own row at the flush
\* after it, which gives Flushed
FirstWriteSets(st, r) == Flushed(st, [r EXCEPT !.cleared = {}])
FirstWrite(st, r) == AfterUnset(st, r)

\* db.commit(): the flush succeeds only if no row went stale and the unique
\* constraints of table styles hold on the result; the unique index is checked
\* by each statement.
CommitOK(st, r) ==
    /\ ~Stale(st, r)
    /\ UqStylesProductIdName(Flushed(st, r))
    /\ IxStylesProductDefault(FirstWrite(st, r))
    /\ IxStylesProductDefault(Flushed(st, r))

\* "Commit database changes first", before the blob operations of update_style
CommitFirstNot(st, r) == st
CommitFirst(st, r) == Flushed(st, r)

\* db.rollback(): the table without the writes of the transaction
RolledBackNot(st, r) == Flushed(st, r)
RolledBack(st, r) == st

\* --------------------------------------------------------------- helpers

\* _check_duplicate_name: some style of the product has the name
\* (exclude is NoId or a style id; "if exclude_style_id:" holds for every id string)
DuplicateNameNoExclude(st, p, name, exclude) ==
    \E i \in DOMAIN st : st[i].product_id = p /\ st[i].name = name
DuplicateName(st, p, name, exclude) ==
    \E i \in DOMAIN st :
        /\ st[i].product_id = p
        /\ st[i].name = name
        /\ (exclude # NoId => i # exclude)

\* _has_styles
HasStylesAlways(st, p) == TRUE
HasStyles(st, p) == Cardinality(StylesOf(st, p)) > 0

\* _unset_other_defaults: the rows the bulk UPDATE matches
UnsetOtherDefaultsNone(st, p, exclude) == {}
UnsetOtherDefaultsAnyProduct(st, p, exclude) ==
    {i \in DOMAIN st : st[i].is_default /\ (exclude # NoId => i # exclude)}
UnsetOtherDefaults(st, p, exclude) ==
    {i \in DefaultsOf(st, p) : exclude # NoId => i # exclude}

\* _is_only_default_style, "if count != 1: return False": the count of the
\* product's default styles is 1
OnlyOneDefaultNever(st, p) == FALSE
OnlyOneDefault(st, p) == Cardinality(DefaultsOf(st, p)) = 1

\* _get_style_or_404: the style row scoped to the product
StyleFoundAnyProduct(st, p, id) == id \in DOMAIN st
StyleFound(st, p, id) == id \in DOMAIN st /\ st[id].product_id = p

\* A call of BlobStorageService: blob_log keeps the calls the request made, each
\* with its outcome (upload_ok and delete_ok say whether the service succeeds)
BlobCall(r, call, ok) == [r EXCEPT !.blob_log = Append(@, <<call, ok>>)]

\* "except Exception" around blob_service.upload_file: the upload raised
UploadFailedIgnored(r) == FALSE
UploadFailed(r) == ~r.upload_ok

\* "if old_blob_path and old_blob_path != blob_path" (update_style) and
\* "if blob_path" (delete_style): the old file is deleted
DeletesBlob(old_blob_path, blob_path) == old_blob_path # <<>> /\ old_blob_path # blob_path

\* ------------------------------------------------------------ create_style

CreateStyle(st, nid, r) ==
    CASE r.pc = "start" ->
            IF r.product_id \notin Products THEN Raise(st, nid, r, HTTP_404)
            ELSE IF r.file = BadFile THEN Raise(st, nid, r, HTTP_422)
            ELSE IF r.customization_schema = BadSchema THEN Raise(st, nid, r, HTTP_422)
            ELSE IF DuplicateName(st, r.product_id, r.name, NoId) THEN Raise(st, nid, r, HTTP_409)
            ELSE Res(st, nid, [r EXCEPT !.pc = "has_styles"])
      [] r.pc = "has_styles" ->
            LET should == (Lower(r.is_default) = "true") \/ ~HasStyles(st, r.product_id) IN
            Res(st, nid, [r EXCEPT !.should_be_default = should,
                                   !.pc = IF should THEN "unset" ELSE "insert"])
      [] r.pc = "unset" ->
            Res(st, nid, [r EXCEPT !.cleared = UnsetOtherDefaults(st, r.product_id, NoId),
                                   !.pc = "insert"])
      [] r.pc = "insert" ->
            \* db.add(style); db.flush(): the INSERT, then the upload
            LET row == [product_id |-> r.product_id, name |-> r.name,
                        description |-> r.description, template_blob_path |-> <<>>,
                        customization_schema |-> r.customization_schema,
                        is_default |-> r.should_be_default, display_order |-> 0]
                r1 == [r EXCEPT !.style_id = nid, !.style = row, !.inserted = TRUE]
                r2 == BlobCall(r1, "upload", r.upload_ok)
            IN  IF ~CommitOK(st, r1) THEN Raise(st, nid + 1, r1, HTTP_500)
                ELSE IF UploadFailed(r) THEN Raise(RolledBack(st, r1), nid + 1, r2, HTTP_500)
                ELSE Res(st, nid + 1,
                         [r2 EXCEPT !.style.template_blob_path = BlobPath(nid), !.pc = "commit"])
      [] r.pc = "commit" ->
            IF ~CommitOK(st, r) THEN Raise(st, nid, r, HTTP_500)
            ELSE Return(Flushed(st, r), nid, r, HTTP_201)

\* ------------------------------------------------------------ update_style

\* "Handle file upload - validate ... before committing": the last statements before db.commit()
UpdateFile(st, nid, r) ==
    IF r.file = BadFile THEN Raise(st, nid, r, HTTP_422)
    ELSE Res(st, nid, [r EXCEPT !.pc = "commit"])

\* style.is_default = should_be_default
IsDefaultNotAssigned(style, should_be_default) == style
IsDefaultAssigned(style, should_be_default) == [style EXCEPT !.is_default = should_be_default]

\* "if description is not None:"
DescriptionGivenAlways(description) == TRUE
DescriptionGiven(description) == description # None

\* The assignments after the name check, up to the next statement sent to the database
UpdateFields(st, nid, r0) ==
    LET r1 == IF DescriptionGiven(r0.description) THEN [r0 EXCEPT !.style.description = r0.description] ELSE r0
        r2 == IF r1.customization_schema # None
              THEN [r1 EXCEPT !.style.customization_schema = r1.customization_schema] ELSE r1
        r3 == IF r2.display_order # NoOrder THEN [r2 EXCEPT !.style.display_order = r2.display_order] ELSE r2
        should == Lower(r3.is_default) = "true"
    IN  IF r1.customization_schema = BadSchema THEN Raise(st, nid, r1, HTTP_422)
        ELSE IF r3.is_default = None THEN UpdateFile(st, nid, r3)
        ELSE IF should /\ ~r3.style.is_default
             THEN Res(st, nid, [r3 EXCEPT !.should_be_default = should, !.pc = "unset"])
        ELSE IF ~should /\ r3.style.is_default
             THEN Res(st, nid, [r3 EXCEPT !.should_be_default = should, !.pc = "only_default"])
        ELSE UpdateFile(st, nid, [r3 EXCEPT !.should_be_default = should,
                                            !.style = IsDefaultAssigned(r3.style, should)])

UpdateStyle(st, nid, r) ==
    CASE r.pc = "start" ->
            IF r.product_id \notin Products THEN Raise(st, nid, r, HTTP_404)
            ELSE IF ~StyleFound(st, r.product_id, r.style_id) THEN Raise(st, nid, r, HTTP_404)
            ELSE LET r1 == [r EXCEPT !.style = st[r.style_id], !.loaded = st[r.style_id]] IN
                 IF r.name # None THEN Res(st, nid, [r1 EXCEPT !.pc = "check_name"])
                 ELSE UpdateFields(st, nid, r1)
      [] r.pc = "check_name" ->
            IF DuplicateName(st, r.product_id, r.name, r.style_id) THEN Raise(st, nid, r, HTTP_409)
            ELSE UpdateFields(st, nid, [r EXCEPT !.style.name = r.name])
      [] r.pc = "unset" ->
            UpdateFile(st, nid, [r EXCEPT !.cleared = UnsetOtherDefaults(st, r.product_id, r.style_id),
                                          !.style = IsDefaultAssigned(r.style, TRUE)])
      [] r.pc = "only_default" ->
            \* _is_only_default_style, first query: the count of the product's defaults
            IF OnlyOneDefault(st, r.product_id)
            THEN Res(st, nid, [r EXCEPT !.pc = "only_default_check"])
            ELSE UpdateFile(st, nid, [r EXCEPT !.style = IsDefaultAssigned(r.style, FALSE)])
      [] r.pc = "only_default_check" ->
            \* second query: is this style a default
            IF r.style_id \in DOMAIN st /\ st[r.style_id].is_default
            THEN Raise(st, nid, r, HTTP_400)
            ELSE UpdateFile(st, nid, [r EXCEPT !.style = IsDefaultAssigned(r.style, FALSE)])
      [] r.pc = "commit" ->
            \* db.commit(); db.refresh(style)
            IF ~CommitOK(st, r) THEN Raise(st, nid, r, HTTP_500)
            ELSE IF r.style_id \notin DOMAIN st THEN Raise(Flushed(st, r), nid, r, HTTP_500)
            ELSE LET st1 == IF r.file = None THEN Flushed(st, r) ELSE CommitFirst(st, r)
                     r1 == [r EXCEPT !.style = st1[r.style_id], !.loaded = st1[r.style_id],
                                     !.cleared = {}]
                 IN  IF r.file = None THEN Return(st1, nid, r1, HTTP_200)
                     ELSE Res(st1, nid, [r1 EXCEPT !.pc = "upload"])
      [] r.pc = "upload" ->
            \* upload, then the second commit and refresh; "except Exception" gives 500;
            \* then the old file is deleted, and a failure of that is logged only
            LET r0 == BlobCall(r, "upload", r.upload_ok)
                r1 == [r0 EXCEPT !.style.template_blob_path = BlobPath(r.style_id)]
                r2 == IF DeletesBlob(r.style.template_blob_path, BlobPath(r.style_id))
                      THEN BlobCall(r1, "delete", r.delete_ok) ELSE r1
            IN  IF UploadFailed(r) THEN Raise(st, nid, r0, HTTP_500)
                ELSE IF ~CommitOK(st, r1) THEN Raise(st, nid, r1, HTTP_500)
                ELSE IF r.style_id \notin DOMAIN st THEN Raise(Flushed(st, r1), nid, r1, HTTP_500)
                ELSE Return(Flushed(st, r1), nid, r2, HTTP_200)

\* ------------------------------------------------------------ delete_style

\* "Cannot delete default style": the guard on the loaded style
DeleteForbiddenNever(style) == FALSE
DeleteForbidden(style) == style.is_default

\* select(func.count()).select_from(Configuration).where(Configuration.style_id == style_id)
ConfigurationCountAll(cf, style_id) == Cardinality(DOMAIN cf)
ConfigurationCount(cf, style_id) == Cardinality({c \in DOMAIN cf : cf[c].style_id = style_id})

DeleteStyle(st, cf, nid, r) ==
    CASE r.pc = "start" ->
            IF r.product_id \notin Products THEN Raise(st, nid, r, HTTP_404)
            ELSE IF ~StyleFound(st, r.product_id, r.style_id) THEN Raise(st, nid, r, HTTP_404)
            ELSE IF DeleteForbidden(st[r.style_id]) THEN Raise(st, nid, r, HTTP_400)
            ELSE Res(st, nid, [r EXCEPT !.style = st[r.style_id], !.loaded = st[r.style_id],
                                        !.pc = "count_configurations"])
      [] r.pc = "count_configurations" ->
            IF ConfigurationCount(cf, r.style_id) > 0
            THEN Raise(st, nid, r, HTTP_409)
            ELSE Res(st, nid, [r EXCEPT !.pc = "delete"])
      [] r.pc = "delete" ->
            \* db.delete(style); db.commit(); then the blob file is deleted, and a
            \* failure of that is logged only
            LET st1 == [i \in DOMAIN st \ {r.style_id} |-> st[i]]
                r1 == IF DeletesBlob(r.style.template_blob_path, <<>>)
                      THEN BlobCall(r, "delete", r.delete_ok) ELSE r
            IN  IF r.style_id \notin DOMAIN st THEN Raise(st, nid, r, HTTP_500)   \* StaleDataError
                ELSE IF r.fk /\ ~FkStyleRestrict(st1, cf)
                THEN Raise(st, nid, r, HTTP_409)                                 \* IntegrityError
                ELSE Return(st1, nid, r1, HTTP_204)

\* ------------------------------------------------------- set_default_style

\* style.is_default = True
MadeDefaultToggled(style) == [style EXCEPT !.is_default = ~style.is_default]
MadeDefault(style) == [style EXCEPT !.is_default = TRUE]

SetDefaultStyle(st, nid, r) ==
    CASE r.pc = "start" ->
            IF r.product_id \notin Products THEN Raise(st, nid, r, HTTP_404)
            ELSE IF ~StyleFound(st, r.product_id, r.style_id) THEN Raise(st, nid, r, HTTP_404)
            ELSE Res(st, nid, [r EXCEPT !.style = st[r.style_id], !.loaded = st[r.style_id],
                                        !.pc = "unset"])
      [] r.pc = "unset" ->
            Res(st, nid, [r EXCEPT !.cleared = UnsetOtherDefaults(st, r.product_id, r.style_id),
                                   !.style = MadeDefault(r.style), !.pc = "commit"])
      [] r.pc = "commit" ->
            IF ~CommitOK(st, r) THEN Raise(st, nid, r, HTTP_500)
            ELSE IF r.style_id \notin DOMAIN st THEN Raise(Flushed(st, r), nid, r, HTTP_500)
            ELSE Return(Flushed(st, r), nid, r, HTTP_200)

\* --------------------------------------------------------------- get_style

GetStyle(st, nid, r) ==
    IF r.product_id \notin Products THEN Raise(st, nid, r, HTTP_404)
    ELSE IF ~StyleFound(st, r.product_id, r.style_id) THEN Raise(st, nid, r, HTTP_404)
    ELSE Return(st, nid, [r EXCEPT !.style = st[r.style_id]], HTTP_200)

\* One statement of a style request
Exec(st, cf, nid, r) ==
    CASE r.op = "create_style" -> CreateStyle(st, nid, r)
      [] r.op = "update_style" -> UpdateStyle(st, nid, r)
      [] r.op = "delete_style" -> DeleteStyle(st, cf, nid, r)
      [] r.op = "set_default_style" -> SetDefaultStyle(st, nid, r)
      [] r.op = "get_style" -> GetStyle(st, nid, r)

\* A request that runs alone: its statements one after the other
RECURSIVE Run(_, _, _, _)
Run(st, cf, nid, r) ==
    IF r.pc = "done" THEN Res(st, nid, r)
    ELSE LET x == Exec(st, cf, nid, r) IN Run(x.st, cf, x.nid, x.r)

\* ------------------------------------------------------------------ inputs

NoArgs ==
    [product_id |-> None, style_id |-> NoId, name |-> None, description |-> None,
     customization_schema |-> None, is_default |-> None, display_order |-> NoOrder,
     file |-> None, upload_ok |-> TRUE, delete_ok |-> TRUE]

\* One request for each operation names a product that does not exist
Missing == [NoArgs EXCEPT !.product_id = MissingProduct, !.style_id = 1, !.name = "a",
                          !.customization_schema = "s0", !.is_default = "false", !.file = "ok"]

\* The uploads of a request: no file, a file that uploads, a file whose upload
\* fails, a file that is not a .blend file
Uploads == {<<"ok", TRUE>>, <<"ok", FALSE>>, <<BadFile, TRUE>>}

\* The form fields of POST /products/{id}/styles (is_default defaults to "false")
CreateArgs ==
    {[NoArgs EXCEPT !.product_id = p, !.name = n, !.customization_schema = sf[1],
                    !.is_default = d, !.file = sf[2][1], !.upload_ok = sf[2][2]] :
        p \in Products, n \in Names, d \in {"false", "true", "True"},
        sf \in ({"s0"} \X Uploads) \cup {<<BadSchema, <<"ok", TRUE>>>>}}
    \cup {Missing}

\* The form fields of PATCH /products/{id}/styles/{style_id}: every field optional.
\* Descriptions, schemas and display orders are the sets the specification names.
UpdateArgsOf(Prods, NewNames, Descriptions, Schemas, Orders, Files) ==
    {[NoArgs EXCEPT !.product_id = p, !.style_id = i, !.name = n, !.description = ds,
                    !.customization_schema = sf[1], !.is_default = d, !.display_order = o,
                    !.file = sf[2][1], !.upload_ok = sf[2][2]] :
        p \in Prods, i \in StyleIds, n \in NewNames \cup {None}, ds \in Descriptions,
        d \in {None, "false", "true"}, o \in Orders,
        sf \in (Schemas \X {<<None, TRUE>>}) \cup ({None} \X Files)}
    \cup {Missing}

\* Updates that leave description, schema and display order alone
UpdateArgs == UpdateArgsOf(Products, Names, {None}, {None, BadSchema}, {NoOrder}, Uploads)

\* Updates of one product that supply any subset of the fields
UpdateFieldsArgs ==
    UpdateArgsOf({"p1"}, {"b", "c"}, {None, "d1"}, {None, "s1", BadSchema}, {NoOrder, 1}, {})

\* DELETE and POST .../set-default take the two path parameters
PathArgs ==
    {[NoArgs EXCEPT !.product_id = p, !.style_id = i] : p \in Products, i \in StyleIds}
    \cup {Missing}

\* --------------------------------------------------------------- responses

\* What the caller sees of a finished request: the operation, the style it names
\* (for create_style the style it created), the is_default it asked for, and the
\* status code
Response(r) ==
    [op |-> r.op, code |-> r.code, product_id |-> r.product_id, style_id |-> r.style_id,
     is_default |-> r.is_default, id |-> NoId]

\* The same with every form field of the request
FullResponse(r) ==
    [op |-> r.op, code |-> r.code, product_id |-> r.product_id, style_id |-> r.style_id,
     is_default |-> r.is_default, id |-> NoId, name |-> r.name, description |-> r.description,
     customization_schema |-> r.customization_schema, display_order |-> r.display_order,
     file |-> r.file, upload_ok |-> r.upload_ok]

NoResponse == Response(Idle)

Slots == 1 .. MaxReq
AllIdle == \A s \in Slots : reqs[s].op = "idle"

Init ==
    /\ styles = <<>>
    /\ nextStyleId = 1
    /\ configurations = <<>>
    /\ nextConfigurationId = 1
    /\ jobs = <<>>
    /\ nextJobId = 1
    /\ reqs = [s \in Slots |-> Idle]
    /\ served = 0
    /\ resp = NoResponse

\* ------------------------------------------- requests served one at a time

Serve(r0) ==
    /\ LET x == Run(styles, configurations, nextStyleId, r0) IN
        /\ styles' = x.st
        /\ nextStyleId' = x.nid
        /\ resp' = Response(x.r)
    /\ UNCHANGED <<configurations, nextConfigurationId, jobs, nextJobId, reqs, served>>

create_style ==
    \E a \in CreateArgs :
        AllIdle /\ nextStyleId <= MaxStyles /\ Serve(Request("create_style", a))
update_style == \E a \in UpdateArgs : AllIdle /\ Serve(Request("update_style", a))
delete_style ==
    \E a \in PathArgs, fk \in ForeignKeys :
        AllIdle /\ Serve([Request("delete_style", a) EXCEPT !.fk = fk])
set_default_style == \E a \in PathArgs : AllIdle /\ Serve(Request("set_default_style", a))
get_style == \E a \in PathArgs : AllIdle /\ Serve(Request("get_style", a))

\* -------------------------------------------------------- configurations

\* jsonschema.validate(instance=config_data, schema=style.customization_schema):
\* schema "s0" accepts "x0" only, schema "s1" accepts "x0" and "x1"
Validates(data, schema) == data = "x0" \/ (data = "x1" /\ schema = "s1")

ConfigurationArgs ==
    {[product_id |-> p, style_id |-> i, client_id |-> "k1", config_data |-> d] :
        p \in Products, i \in StyleIds, d \in {"x0", "x1"}}
    \cup {[product_id |-> MissingProduct, style_id |-> 1, client_id |-> "k1", config_data |-> "x0"]}

ConfigurationResponse(op, code, a, id) ==
    [op |-> op, code |-> code, product_id |-> a.product_id, style_id |-> a.style_id,
     is_default |-> None, id |-> id, client_id |-> a.client_id, config_data |-> a.config_data]

\* Configuration.client_id: ForeignKey("clients.id"); where the foreign keys
\* are enforced, db.commit() raises IntegrityError for a client that is not
\* stored, which is answered 500
Clients == {"k1"}
MissingClient == "k0"
ClientMissing(client_id) == client_id \notin Clients

\* POST /configurations
StyleOwnedAlways(p, id) == id \in DOMAIN styles
StyleOwned(p, id) == StyleFound(styles, p, id)

CreateConfiguration(a) ==
    \E fk \in ForeignKeys :
    LET code == IF a.product_id \notin Products THEN HTTP_404
                ELSE IF ~StyleOwned(a.product_id, a.style_id) THEN HTTP_404
                ELSE IF ~Validates(a.config_data, styles[a.style_id].customization_schema)
                THEN HTTP_422
                ELSE IF fk /\ ClientMissing(a.client_id) THEN HTTP_500
                ELSE HTTP_201
        row == [product_id |-> a.product_id, style_id |-> a.style_id,
                client_id |-> a.client_id, config_data |-> a.config_data]
        id == nextConfigurationId
    IN  /\ configurations' =
            IF code = HTTP_201
            THEN [c \in DOMAIN configurations \cup {id} |->
                    IF c = id THEN row ELSE configurations[c]]
            ELSE configurations
        /\ nextConfigurationId' = IF code = HTTP_201 THEN id + 1 ELSE id
        /\ resp' = ConfigurationResponse("create_configuration", code, a, id)
        /\ UNCHANGED <<styles, nextStyleId, jobs, nextJobId, reqs, served>>

create_configuration ==
    \E a \in ConfigurationArgs :
        AllIdle /\ nextConfigurationId <= MaxConfigurations /\ CreateConfiguration(a)

\* Configuration.jobs: relationship("Job", cascade="all, delete-orphan"): the
\* jobs left when the configuration is deleted
CascadeJobsMissing(jb, id) == jb
CascadeJobs(jb, id) == [j \in {k \in DOMAIN jb : jb[k].configuration_id # id} |-> jb[j]]

\* DELETE /configurations/{id}: the relationship Configuration.jobs cascades the delete
DeleteConfiguration(id) ==
    LET found == id \in DOMAIN configurations IN
    /\ configurations' =
        IF found THEN [c \in DOMAIN configurations \ {id} |-> configurations[c]]
        ELSE configurations
    /\ jobs' = IF found THEN CascadeJobs(jobs, id) ELSE jobs
    /\ resp' = [op |-> "delete_configuration", code |-> IF found THEN HTTP_204 ELSE HTTP_404,
                product_id |-> None, style_id |-> NoId, is_default |-> None, id |-> id]
    /\ UNCHANGED <<styles, nextStyleId, nextConfigurationId, nextJobId, reqs, served>>

delete_configuration ==
    \E id \in 1 .. MaxConfigurations : AllIdle /\ DeleteConfiguration(id)

NextStyle ==
    \/ create_style
    \/ update_style
    \/ delete_style
    \/ set_default_style
    \/ get_style
    \/ create_configuration
    \/ delete_configuration

SpecStyle == Init /\ [][NextStyle]_vars

\* ----------------------- updates of every field, on a product with two styles

ServeFull(r0) ==
    /\ LET x == Run(styles, configurations, nextStyleId, r0) IN
        /\ styles' = x.st
        /\ nextStyleId' = x.nid
        /\ resp' = FullResponse(x.r)
    /\ served' = served + 1
    /\ UNCHANGED <<configurations, nextConfigurationId, jobs, nextJobId, reqs>>

\* The database after POST styles (name "a") and POST styles (name "b") on product p1
TwoStyles ==
    LET a == [Missing EXCEPT !.product_id = "p1", !.name = "a"]
        b == [Missing EXCEPT !.product_id = "p1", !.name = "b"]
        x == Run(<<>>, <<>>, 1, Request("create_style", a))
    IN  Run(x.st, <<>>, x.nid, Request("create_style", b))

InitFields ==
    /\ styles = TwoStyles.st
    /\ nextStyleId = TwoStyles.nid
    /\ configurations = <<>>
    /\ nextConfigurationId = 1
    /\ jobs = <<>>
    /\ nextJobId = 1
    /\ reqs = [s \in Slots |-> Idle]
    /\ served = 0
    /\ resp = FullResponse(TwoStyles.r)

update_style_fields ==
    \E a \in UpdateFieldsArgs :
        AllIdle /\ served < MaxServed /\ ServeFull(Request("update_style", a))
set_default_style_fields ==
    \E a \in PathArgs :
        /\ AllIdle /\ served < MaxServed /\ a.product_id = "p1"
        /\ ServeFull(Request("set_default_style", a))

NextFields == update_style_fields \/ set_default_style_fields

SpecStyleFields == InitFields /\ [][NextFields]_vars

\* ------------------------------------------- requests that run concurrently
(* Each request is one transaction at READ COMMITTED: a statement reads the     *)
(* committed rows; the request's own writes stay pending until its commit,     *)
(* which applies them at once and fails if a unique constraint is broken or a  *)
(* row it writes is gone.  The requests below are on product p1.               *)

ConcCreateArgs ==
    {[NoArgs EXCEPT !.product_id = "p1", !.name = n, !.customization_schema = "s0",
                    !.is_default = d, !.file = "ok"] : n \in Names, d \in {"false", "true"}}

ConcUpdateArgs ==
    {[NoArgs EXCEPT !.product_id = "p1", !.style_id = i, !.is_default = d] :
        i \in StyleIds, d \in {"false", "true"}}

ConcPathArgs == {[NoArgs EXCEPT !.product_id = "p1", !.style_id = i] : i \in StyleIds}

\* create_style requests in flight that have not yet drawn their id
Drawing == Cardinality({s \in Slots : reqs[s].op = "create_style" /\ reqs[s].style_id = NoId})

\* The next statement of the request in slot s
Statement(s, r) ==
    LET x == Exec(styles, configurations, nextStyleId, r) IN
    /\ styles' = x.st
    /\ nextStyleId' = x.nid
    /\ IF x.r.pc = "done"
       THEN reqs' = [reqs EXCEPT ![s] = Idle] /\ resp' = Response(x.r)
       ELSE reqs' = [reqs EXCEPT ![s] = x.r] /\ resp' = resp
    /\ UNCHANGED <<configurations, nextConfigurationId, jobs, nextJobId, served>>

begin_create_style(s) ==
    \E a \in ConcCreateArgs :
        /\ reqs[s].op = "idle"
        /\ nextStyleId + Drawing <= MaxStyles
        /\ Statement(s, Request("create_style", a))

begin_update_style(s) ==
    \E a \in ConcUpdateArgs : reqs[s].op = "idle" /\ Statement(s, Request("update_style", a))

begin_delete_style(s) ==
    \E a \in ConcPathArgs : reqs[s].op = "idle" /\ Statement(s, Request("delete_style", a))

begin_set_default_style(s) ==
    \E a \in ConcPathArgs : reqs[s].op = "idle" /\ Statement(s, Request("set_default_style", a))

continue(s) == reqs[s].op # "idle" /\ Statement(s, reqs[s])

NextConc ==
    \E s \in Slots :
        \/ begin_create_style(s)
        \/ begin_update_style(s)
        \/ begin_delete_style(s)
        \/ begin_set_default_style(s)
        \/ continue(s)

SpecStyleConc == Init /\ [][NextConc]_vars

\* ------------------------------- requests one at a time, statement by statement
(* The same statements with one request in flight: the states between the     *)
(* statements of a request are states of the specification.                   *)
NextSteps ==
    \/ begin_create_style(1)
    \/ begin_update_style(1)
    \/ begin_delete_style(1)
    \/ begin_set_default_style(1)
    \/ continue(1)

SpecStyleSteps == Init /\ [][NextSteps]_vars

\* ------------------------------------- creates and renames, with their names
(* POST and PATCH of styles on both products; the response carries the form   *)
(* fields of the request.                                                     *)
ServeNames(r0) ==
    /\ LET x == Run(styles, configurations, nextStyleId, r0) IN
        /\ styles' = x.st
        /\ nextStyleId' = x.nid
        /\ resp' = FullResponse(x.r)
    /\ UNCHANGED <<configurations, nextConfigurationId, jobs, nextJobId, reqs, served>>

CreateNamesArgs ==
    {[Missing EXCEPT !.product_id = p, !.name = n, !.is_default = d,
                     !.customization_schema = sf[1], !.file = sf[2]] :
        p \in Products, n \in Names, d \in {"false", "true"},
        sf \in {<<"s0", "ok">>, <<BadSchema, "ok">>, <<"s0", BadFile>>}}

UpdateNamesArgs ==
    {[NoArgs EXCEPT !.product_id = p, !.style_id = i, !.name = n,
                    !.customization_schema = sc] :
        p \in Products, i \in StyleIds, n \in Names \cup {None}, sc \in {None, "s1", BadSchema}}

create_style_names ==
    \E a \in CreateNamesArgs :
        AllIdle /\ nextStyleId <= MaxStyles /\ ServeNames(Request("create_style", a))

update_style_names ==
    \E a \in UpdateNamesArgs : AllIdle /\ ServeNames(Request("update_style", a))

NextNames == create_style_names \/ update_style_names

SpecStyleNames == Init /\ [][NextNames]_vars

\* ---------------------------------------------------------- configurations
(* POST and DELETE of configurations over three styles: style 1 (schema s0)   *)
(* and style 2 (schema s1) of product p1, style 3 (schema s0) of product p2.  *)
ThreeStyles ==
    [st |-> [i \in 1 .. 3 |->
                IF i = 1 THEN TwoStyles.st[1]
                ELSE IF i = 2 THEN [TwoStyles.st[2] EXCEPT !.customization_schema = "s1"]
                ELSE [TwoStyles.st[1] EXCEPT !.product_id = "p2",
                                             !.template_blob_path = BlobPath(3)]],
     nid |-> 4]

InitConfiguration ==
    /\ styles = ThreeStyles.st
    /\ nextStyleId = ThreeStyles.nid
    /\ configurations = <<>>
    /\ nextConfigurationId = 1
    /\ jobs = <<>>
    /\ nextJobId = 1
    /\ reqs = [s \in Slots |-> Idle]
    /\ served = 0
    /\ resp = NoResponse

\* style 4 is not stored
AnyConfigurationArgs ==
    {[product_id |-> p, style_id |-> i, client_id |-> k, config_data |-> d] :
        p \in Products \cup {MissingProduct}, i \in 1 .. 4,
        k \in Clients \cup {MissingClient}, d \in {"x0", "x1"}}

create_configuration_any ==
    \E a \in AnyConfigurationArgs :
        AllIdle /\ nextConfigurationId <= MaxConfigurations + 1 /\ CreateConfiguration(a)

NextConfiguration == create_configuration_any \/ delete_configuration

SpecConfiguration == InitConfiguration /\ [][NextConfiguration]_vars

\* ------------------------------------------------ calls of the blob storage
(* POST, PATCH and DELETE of styles with a blob storage whose upload and      *)
(* delete calls may each fail; the response carries the calls the request     *)
(* made.                                                                      *)
BlobResponse(r) ==
    [op |-> r.op, code |-> r.code, product_id |-> r.product_id, style_id |-> r.style_id,
     is_default |-> r.is_default, id |-> NoId, file |-> r.file, blob_log |-> r.blob_log]

ServeBlob(r0) ==
    /\ LET x == Run(styles, configurations, nextStyleId, r0) IN
        /\ styles' = x.st
        /\ nextStyleId' = x.nid
        /\ resp' = BlobResponse(x.r)
    /\ UNCHANGED <<configurations, nextConfigurationId, jobs, nextJobId, reqs, served>>

create_style_blob ==
    \E a \in CreateArgs :
        AllIdle /\ nextStyleId <= MaxStyles /\ ServeBlob(Request("create_style", a))

\* Updates that carry a file and may change is_default
UpdateBlobArgs == UpdateArgsOf(Products, {}, {None}, {}, {NoOrder}, Uploads)

update_style_blob ==
    \E a \in UpdateBlobArgs, ok \in BOOLEAN :
        AllIdle /\ ServeBlob(Request("update_style", [a EXCEPT !.delete_ok = ok]))

delete_style_blob ==
    \E a \in PathArgs, ok \in BOOLEAN :
        AllIdle /\ ServeBlob(Request("delete_style", [a EXCEPT !.delete_ok = ok]))

NextBlob == create_style_blob \/ update_style_blob \/ delete_style_blob

InitBlob ==
    /\ styles = <<>>
    /\ nextStyleId = 1
    /\ configurations = <<>>
    /\ nextConfigurationId = 1
    /\ jobs = <<>>
    /\ nextJobId = 1
    /\ reqs = [s \in Slots |-> Idle]
    /\ served = 0
    /\ resp = BlobResponse(Idle)

SpecStyleBlob == InitBlob /\ [][NextBlob]_vars

\* ------------------------------------ updates that carry a file, every field
(* PATCH of the two styles of product p1 with a file whose upload succeeds    *)
(* or fails, and any subset of the other fields.                              *)
UploadResponse(r) == FullResponse(r) @@ [blob_log |-> r.blob_log]

UpdateUploadArgs ==
    {[NoArgs EXCEPT !.product_id = "p1", !.style_id = i, !.name = n, !.description = ds,
                    !.customization_schema = sc, !.is_default = d, !.display_order = o,
                    !.file = "ok", !.upload_ok = u] :
        i \in StyleIds, n \in {None, "c"}, ds \in {None, "d1"}, sc \in {None, "s1"},
        d \in {None, "false", "true"}, o \in {NoOrder, 1}, u \in BOOLEAN}

update_style_upload ==
    \E a \in UpdateUploadArgs :
        /\ AllIdle /\ served < MaxServed
        /\ LET x == Run(styles, configurations, nextStyleId, Request("update_style", a)) IN
            /\ styles' = x.st
            /\ nextStyleId' = x.nid
            /\ resp' = UploadResponse(x.r)
        /\ served' = served + 1
        /\ UNCHANGED <<configurations, nextConfigurationId, jobs, nextJobId, reqs>>

InitUpload ==
    /\ styles = TwoStyles.st
    /\ nextStyleId = TwoStyles.nid
    /\ configurations = <<>>
    /\ nextConfigurationId = 1
    /\ jobs = <<>>
    /\ nextJobId = 1
    /\ reqs = [s \in Slots |-> Idle]
    /\ served = 0
    /\ resp = UploadResponse(TwoStyles.r)

NextUpload == update_style_upload

SpecStyleUpload == InitUpload /\ [][NextUpload]_vars

\* ----------------------------- delete_style while a configuration is created
(* DELETE of a style in slot 1 and POST /configurations in slot 2, statement  *)
(* by statement, on the two styles of product p1.  Each request reads the     *)
(* committed rows and writes once, at its commit.  The database either        *)
(* enforces the foreign keys or does not: every slot carries the choice made  *)
(* in the initial state.                                                      *)
IdleOf(fk) == [Idle EXCEPT !.fk = fk]

InitDelete ==
    /\ styles = TwoStyles.st
    /\ nextStyleId = TwoStyles.nid
    /\ configurations = <<>>
    /\ nextConfigurationId = 1
    /\ jobs = <<>>
    /\ nextJobId = 1
    /\ \E fk \in ForeignKeys : reqs = [s \in Slots |-> IdleOf(fk)]
    /\ served = 0
    /\ resp = NoResponse

\* The next statement of the delete_style in slot 1
DeleteStatement(r) ==
    LET x == Exec(styles, configurations, nextStyleId, r) IN
    /\ styles' = x.st
    /\ IF x.r.pc = "done"
       THEN reqs' = [reqs EXCEPT ![1] = IdleOf(r.fk)] /\ resp' = Response(x.r)
       ELSE reqs' = [reqs EXCEPT ![1] = x.r] /\ resp' = resp
    /\ UNCHANGED <<nextStyleId, configurations, nextConfigurationId, jobs, nextJobId, served>>

begin_delete_style_fk ==
    \E a \in PathArgs :
        /\ reqs[1].op = "idle"
        /\ DeleteStatement([Request("delete_style", a) EXCEPT !.fk = reqs[1].fk])

continue_delete_style_fk == reqs[1].op = "delete_style" /\ DeleteStatement(reqs[1])

\* create_configuration up to db.add: the product, the style scoped to the
\* product, the validation of config_data ("x0" validates against every schema)
begin_create_configuration ==
    \E a \in ConfigurationArgs :
        /\ reqs[2].op = "idle"
        /\ nextConfigurationId <= MaxConfigurations
        /\ a.config_data = "x0"
        /\ IF a.product_id \notin Products \/ ~StyleOwned(a.product_id, a.style_id)
           THEN /\ resp' = ConfigurationResponse("create_configuration", HTTP_404, a,
                                                 nextConfigurationId)
                /\ reqs' = reqs
           ELSE /\ reqs' = [reqs EXCEPT ![2] =
                                [reqs[2] EXCEPT !.op = "create_configuration", !.pc = "commit",
                                                !.product_id = a.product_id,
                                                !.style_id = a.style_id]]
                /\ resp' = resp
        /\ UNCHANGED <<styles, nextStyleId, configurations, nextConfigurationId, jobs,
                       nextJobId, served>>

\* db.add(configuration); db.commit(): where the foreign keys are enforced the
\* INSERT of a row whose style is gone raises IntegrityError, answered 500
commit_create_configuration ==
    LET r == reqs[2]
        id == nextConfigurationId
        a == [product_id |-> r.product_id, style_id |-> r.style_id, client_id |-> "k1",
              config_data |-> "x0"]
        code == IF r.fk /\ r.style_id \notin DOMAIN styles THEN HTTP_500 ELSE HTTP_201
    IN  /\ r.op = "create_configuration"
        /\ configurations' =
            IF code = HTTP_201
            THEN [c \in DOMAIN configurations \cup {id} |-> IF c = id THEN a ELSE configurations[c]]
            ELSE configurations
        /\ nextConfigurationId' = IF code = HTTP_201 THEN id + 1 ELSE id
        /\ resp' = ConfigurationResponse("create_configuration", code, a, id)
        /\ reqs' = [reqs EXCEPT ![2] = IdleOf(r.fk)]
        /\ UNCHANGED <<styles, nextStyleId, jobs, nextJobId, served>>

NextDelete ==
    \/ begin_delete_style_fk
    \/ continue_delete_style_fk
    \/ begin_create_configuration
    \/ commit_create_configuration

SpecDeleteConc == InitDelete /\ [][NextDelete]_vars

\* ------------------------------------------------------------ repositories
(* BaseRepository.ensure_unique (app/repositories/base.py) of a              *)
(* StyleRepository, called on the tables the styles API builds.              *)

\* The rows the statement selects: field == value, every scope filter
\* (a filter is column == value), and id != exclude_id unless exclude_id is None
Existing(st, field, value, exclude_id, scope_filters) ==
    {i \in DOMAIN st :
        /\ st[i][field] = value
        /\ \A f \in scope_filters : st[i][f.column] = f.value
        /\ (exclude_id # NoId => i # exclude_id)}

\* result.scalar_one_or_none() raises MultipleResultsFound for more than one
\* row; "if existing is not None: raise EntityAlreadyExistsError(...)"
EnsureUnique(st, field, value, exclude_id, scope_filters) ==
    LET n == Cardinality(Existing(st, field, value, exclude_id, scope_filters)) IN
    IF n > 1 THEN <<"MultipleResultsFound">>
    ELSE IF n = 1 THEN <<"EntityAlreadyExistsError", "Style", field, value>>
    ELSE <<>>

\* The scope filters of the calls: none, or Style.product_id == p
ScopeFilters == {{}} \cup {{[column |-> "product_id", value |-> p]} : p \in Products}

ensure_unique ==
    \E field \in {"name"}, value \in Names \cup {"A"},
       exclude_id \in {NoId} \cup StyleIds, scope_filters \in ScopeFilters :
        /\ AllIdle
        /\ resp' = [op |-> "ensure_unique", code |-> NoId, field |-> field, value |-> value,
                    exclude_id |-> exclude_id, scope_filters |-> scope_filters,
                    raised |-> EnsureUnique(styles, field, value, exclude_id, scope_filters)]
        /\ UNCHANGED <<styles, nextStyleId, configurations, nextConfigurationId, jobs,
                       nextJobId, reqs, served>>

NextRepository == create_style_names \/ update_style_names \/ ensure_unique

SpecRepository == Init /\ [][NextRepository]_vars

\* ------------------------------------------ the delete/set-default scenario
(* On a product without styles: POST style A; POST style B with is_default   *)
(* true; DELETE A; DELETE B; POST A/set-default; DELETE B.  The product, the  *)
(* names, the description and the spelling of the flags are any the requests  *)
(* may carry.  A is style 1 and B is style 2; served counts the requests.     *)
ScenarioNames == {"a", "b", "c"}

scenario_create_a ==
    \E p \in Products, n \in ScenarioNames, d \in {"false", "true", "True"} :
        /\ AllIdle /\ served = 0
        /\ ServeFull(Request("create_style",
                [Missing EXCEPT !.product_id = p, !.name = n, !.is_default = d]))

scenario_create_b ==
    \E n \in ScenarioNames, d \in {"true", "True"}, ds \in {None, "d1"} :
        /\ AllIdle /\ served = 1
        /\ n # resp.name
        /\ ServeFull(Request("create_style",
                [Missing EXCEPT !.product_id = resp.product_id, !.name = n,
                                !.description = ds, !.is_default = d]))

scenario_delete_a ==
    /\ AllIdle /\ served = 2
    /\ ServeFull(Request("delete_style",
            [NoArgs EXCEPT !.product_id = resp.product_id, !.style_id = 1]))

scenario_delete_b ==
    /\ AllIdle /\ served \in {3, 5}
    /\ ServeFull(Request("delete_style",
            [NoArgs EXCEPT !.product_id = resp.product_id, !.style_id = 2]))

scenario_set_default_a ==
    /\ AllIdle /\ served = 4
    /\ ServeFull(Request("set_default_style",
            [NoArgs EXCEPT !.product_id = resp.product_id, !.style_id = 1]))

NextScenario ==
    \/ scenario_create_a
    \/ scenario_create_b
    \/ scenario_delete_a
    \/ scenario_delete_b
    \/ scenario_set_default_a

SpecScenario == Init /\ [][NextScenario]_vars

\* -------------------------------------------------------------------- jobs
(* The jobs API (app/api/v1/routes/jobs.py).  Each handler is one SELECT     *)
(* followed by at most one commit; it is served here as one step.  In this   *)
(* specification resp is the response of the step just taken, and is         *)
(* NoJobResponse after a step that is not a request.                         *)

\* JobStatus
JobStatuses == {"PENDING", "QUEUED", "PROCESSING", "COMPLETED", "FAILED", "CANCELLED"}

DefaultMaxRetries == 3

\* Job(configuration_id=..., status=PENDING, progress=0, max_retries=3, retry_count=0);
\* the columns not given are nullable and stay NULL
NewJobQueued(configuration_id) ==
    [configuration_id |-> configuration_id, status |-> "QUEUED", progress |-> 0,
     result_url |-> None, error_code |-> None, error_message |-> None,
     retry_count |-> 0, max_retries |-> DefaultMaxRetries, worker_id |-> "w1",
     started_at |-> None, completed_at |-> None]
NewJob(configuration_id) ==
    [configuration_id |-> configuration_id, status |-> "PENDING", progress |-> 0,
     result_url |-> None, error_code |-> None, error_message |-> None,
     retry_count |-> 0, max_retries |-> DefaultMaxRetries, worker_id |-> None,
     started_at |-> None, completed_at |-> None]

\* if not configuration.client_id (None and the empty string are both falsy)
NoClientNever(configuration) == FALSE
NoClient(configuration) == configuration.client_id \in {None, ""}

\* job.status not in (JobStatus.PENDING, JobStatus.QUEUED), negated
CanCancelProcessing(status) == status \in {"PENDING", "QUEUED", "PROCESSING"}
CanCancel(status) == status \in {"PENDING", "QUEUED"}

\* job.status = JobStatus.CANCELLED
CancelledAndReset(job) == [job EXCEPT !.status = "CANCELLED", !.progress = 0, !.worker_id = None]
Cancelled(job) == [job EXCEPT !.status = "CANCELLED"]

\* The detail of the 400 of cancel_job: the text and job.status.value
CannotCancel(status) == <<"Cannot cancel job with status", status>>

\* JobResponse(...) or the error: body is <<the job row returned>>, <<>> with an error;
\* detail is the detail of the error, <<>> without one
JobResponse(op, code, id, detail, body) ==
    [op |-> op, code |-> code, id |-> id, detail |-> detail, body |-> body]
NoJobResponse == JobResponse("idle", NoId, NoId, <<>>, <<>>)

\* POST /jobs
CreateJob(configuration_id) ==
    LET id == nextJobId IN
    IF configuration_id \notin DOMAIN configurations
    THEN /\ resp' = JobResponse("create_job", HTTP_404, configuration_id, <<"not found">>, <<>>)
         /\ UNCHANGED <<jobs, nextJobId>>
    ELSE IF NoClient(configurations[configuration_id])
    THEN /\ resp' = JobResponse("create_job", HTTP_400, configuration_id,
                                <<"Configuration must belong to a client">>, <<>>)
         /\ UNCHANGED <<jobs, nextJobId>>
    ELSE /\ jobs' = [j \in DOMAIN jobs \cup {id} |->
                        IF j = id THEN NewJob(configuration_id) ELSE jobs[j]]
         /\ nextJobId' = id + 1
         /\ resp' = JobResponse("create_job", HTTP_201, id, <<>>, <<jobs'[id]>>)

\* configuration 3 is never stored
JobArgs == {1, 2, 3}

create_job ==
    \E c \in JobArgs :
        /\ nextJobId <= MaxJobs
        /\ CreateJob(c)
        /\ UNCHANGED <<styles, nextStyleId, configurations, nextConfigurationId, reqs, served>>

\* GET /jobs/{job_id}
GetJob(job_id) ==
    /\ resp' = IF job_id \notin DOMAIN jobs
               THEN JobResponse("get_job", HTTP_404, job_id, <<"not found">>, <<>>)
               ELSE JobResponse("get_job", HTTP_200, job_id, <<>>, <<jobs[job_id]>>)
    /\ UNCHANGED jobs

get_job ==
    \E j \in 1 .. MaxJobs :
        /\ GetJob(j)
        /\ UNCHANGED <<styles, nextStyleId, configurations, nextConfigurationId, nextJobId,
                       reqs, served>>

\* POST /jobs/{job_id}/cancel
CancelJob(job_id) ==
    IF job_id \notin DOMAIN jobs
    THEN /\ resp' = JobResponse("cancel_job", HTTP_404, job_id, <<"not found">>, <<>>)
         /\ UNCHANGED jobs
    ELSE IF ~CanCancel(jobs[job_id].status)
    THEN /\ resp' = JobResponse("cancel_job", HTTP_400, job_id,
                                CannotCancel(jobs[job_id].status), <<>>)
         /\ UNCHANGED jobs
    ELSE /\ jobs' = [jobs EXCEPT ![job_id] = Cancelled(jobs[job_id])]
         /\ resp' = JobResponse("cancel_job", HTTP_200, job_id, <<>>, <<jobs'[job_id]>>)

cancel_job ==
    \E j \in 1 .. MaxJobs :
        /\ CancelJob(j)
        /\ UNCHANGED <<styles, nextStyleId, configurations, nextConfigurationId, nextJobId,
                       reqs, served>>

\* The worker that consumes the jobs is not part of the repository; it moves a job
\* PENDING -> QUEUED -> PROCESSING -> COMPLETED or FAILED and fills the fields
\* the API only displays.
Worker(job) ==
    IF job.status = "PENDING"
    THEN {[job EXCEPT !.status = "QUEUED", !.worker_id = "w1"]}
    ELSE IF job.status = "QUEUED"
    THEN {[job EXCEPT !.status = "PROCESSING", !.started_at = "t1", !.progress = 50]}
    ELSE IF job.status = "PROCESSING"
    THEN {[job EXCEPT !.status = "COMPLETED", !.progress = 100, !.result_url = "glb",
                      !.completed_at = "t2"],
          [job EXCEPT !.status = "FAILED", !.error_code = "BLENDER_TIMEOUT",
                      !.error_message = "timed out", !.retry_count = job.retry_count + 1,
                      !.completed_at = "t2"]}
    ELSE {}

worker ==
    \E j \in DOMAIN jobs : \E row \in Worker(jobs[j]) :
        /\ jobs' = [jobs EXCEPT ![j] = row]
        /\ resp' = NoJobResponse
        /\ UNCHANGED <<styles, nextStyleId, configurations, nextConfigurationId, nextJobId,
                       reqs, served>>

\* Two styles on product p1, configuration 1 of client k1 on style 1, and
\* configuration 2 stored without a client; no configuration 3
InitJob ==
    /\ styles = TwoStyles.st
    /\ nextStyleId = TwoStyles.nid
    /\ configurations =
        [c \in {1, 2} |->
            [product_id |-> "p1", style_id |-> 1,
             client_id |-> IF c = 1 THEN "k1" ELSE None, config_data |-> "x0"]]
    /\ nextConfigurationId = 3
    /\ jobs = <<>>
    /\ nextJobId = 1
    /\ reqs = [s \in Slots |-> Idle]
    /\ served = 0
    /\ resp = NoJobResponse

NextJob ==
    \/ create_job
    \/ get_job
    \/ cancel_job
    \/ worker
    \/ delete_configuration

SpecJob == InitJob /\ [][NextJob]_vars

\* ----------------------------------- cancel_job while the worker is running
(* cancel_job statement by statement: the SELECT with its two checks, then    *)
(* the commit, which writes the status column of the row by its id.  The      *)
(* worker and create_job run between the two.  Slot 1 holds the cancel_job    *)
(* in flight.                                                                 *)
CancelInFlight(job_id) == [op |-> "cancel_job", pc |-> "commit", job_id |-> job_id]

\* select(Job).where(Job.id == job_id); the 404 and the 400
begin_cancel_job ==
    \E j \in 1 .. MaxJobs :
        /\ reqs[1].op = "idle"
        /\ IF j \notin DOMAIN jobs
           THEN /\ resp' = JobResponse("cancel_job", HTTP_404, j, <<"not found">>, <<>>)
                /\ reqs' = reqs
           ELSE IF ~CanCancel(jobs[j].status)
           THEN /\ resp' = JobResponse("cancel_job", HTTP_400, j,
                                       CannotCancel(jobs[j].status), <<>>)
                /\ reqs' = reqs
           ELSE /\ resp' = NoJobResponse
                /\ reqs' = [reqs EXCEPT ![1] = CancelInFlight(j)]
        /\ UNCHANGED <<styles, nextStyleId, configurations, nextConfigurationId, jobs,
                       nextJobId, served>>

\* job.status = JobStatus.CANCELLED; db.commit(): UPDATE jobs SET status = ...
\* WHERE id = ..., whatever the status of the row is by then; db.refresh(job)
commit_cancel_job ==
    LET j == reqs[1].job_id IN
    /\ reqs[1].op = "cancel_job"
    /\ IF j \notin DOMAIN jobs
       THEN /\ resp' = JobResponse("cancel_job", HTTP_500, j, <<"internal_error">>, <<>>)
            /\ jobs' = jobs
       ELSE /\ jobs' = [jobs EXCEPT ![j] = Cancelled(jobs[j])]
            /\ resp' = JobResponse("cancel_job", HTTP_200, j, <<>>, <<jobs'[j]>>)
    /\ reqs' = [reqs EXCEPT ![1] = Idle]
    /\ UNCHANGED <<styles, nextStyleId, configurations, nextConfigurationId, nextJobId, served>>

\* DELETE /configurations/{id} of a stored configuration, also while the
\* cancel_job is in flight
delete_configuration_stored ==
    \E id \in 1 .. MaxConfigurations :
        id \in DOMAIN configurations /\ DeleteConfiguration(id)

NextJobConc ==
    \/ create_job
    \/ worker
    \/ begin_cancel_job
    \/ commit_cancel_job
    \/ delete_configuration_stored

SpecJobConc == InitJob /\ [][NextJobConc]_vars

\* ------------------------------------------------------------------ claims

ExactlyOneDefault(st, p) ==
    Cardinality(DefaultsOf(st, p)) = IF StylesOf(st, p) # {} THEN 1 ELSE 0

\* C1: after any sequence of style operations served one at a time, each product
\* has exactly one default style if it has a style, and none if it has no style.
C1_OneDefaultPerProduct == \A p \in Products : ExactlyOneDefault(styles, p)

\* set-default has succeeded on a product with two styles while another has none
C1_Witness ==
    /\ \E p \in Products : Cardinality(StylesOf(styles, p)) = 2
    /\ \E p \in Products : StylesOf(styles, p) = {}
    /\ resp.op = "set_default_style" /\ resp.code = HTTP_200
    /\ nextStyleId > 2

\* C4: a successful create_style on a product without styles stores the new
\* style as the default, whatever is_default the request carried.
C4_FirstStyleIsDefault ==
    [][(/\ resp'.op = "create_style"
        /\ resp'.code = HTTP_201
        /\ StylesOf(styles, resp'.product_id) = {})
       => (/\ resp'.style_id \in DOMAIN styles'
           /\ resp'.style_id \notin DOMAIN styles
           /\ styles'[resp'.style_id].product_id = resp'.product_id
           /\ styles'[resp'.style_id].is_default)]_vars

\* the first style of a product, created with is_default = "false"
C4_Witness ==
    /\ resp.op = "create_style" /\ resp.code = HTTP_201 /\ resp.is_default = "false"
    /\ StylesOf(styles, resp.product_id) = {resp.style_id}
    /\ styles[resp.style_id].is_default

\* C5: delete_style on a default style is rejected with 400, and the style is
\* still there and still the default.
C5_DeleteDefaultRejected ==
    [][(/\ resp'.op = "delete_style"
        /\ StyleFound(styles, resp'.product_id, resp'.style_id)
        /\ styles[resp'.style_id].is_default)
       => (/\ resp'.code = HTTP_400
           /\ styles' = styles
           /\ configurations' = configurations)]_vars

\* the rejected delete of a default style that is the only style of its product
\* and is referenced by a configuration
C5_Witness ==
    /\ resp.op = "delete_style" /\ resp.code = HTTP_400
    /\ StylesOf(styles, resp.product_id) = {resp.style_id}
    /\ styles[resp.style_id].is_default
    /\ \E c \in DOMAIN configurations : configurations[c].style_id = resp.style_id


\* The style the request names is the only default style of the product it names
SoleDefault(st, p, id) == StyleFound(st, p, id) /\ DefaultsOf(st, p) = {id}

\* C6 as claimed: update_style with is_default=false on the sole default style is
\* rejected with 400 and persists nothing.
C6_Original ==
    [][(/\ resp'.op = "update_style"
        /\ resp'.is_default = "false"
        /\ SoleDefault(styles, resp'.product_id, resp'.style_id))
       => (resp'.code = HTTP_400 /\ styles' = styles)]_vars

\* C6 amended: the request is rejected and persists nothing; the status is 409
\* when the request also renames the style to a name another style of the product
\* has, otherwise 422 when it also supplies an invalid schema, otherwise 400.
C6_UnsetSoleDefaultRejected ==
    [][(/\ resp'.op = "update_style"
        /\ resp'.is_default = "false"
        /\ SoleDefault(styles, resp'.product_id, resp'.style_id))
       => (/\ styles' = styles
           /\ resp'.code =
                IF resp'.name # None
                   /\ DuplicateName(styles, resp'.product_id, resp'.name, resp'.style_id)
                THEN HTTP_409
                ELSE IF resp'.customization_schema = BadSchema THEN HTTP_422
                ELSE HTTP_400)]_vars

\* the 400 for a request that also supplied a new name, description, schema and
\* display order, none of which the style has taken
C6_Witness ==
    /\ resp.op = "update_style" /\ resp.code = HTTP_400 /\ resp.is_default = "false"
    /\ SoleDefault(styles, resp.product_id, resp.style_id)
    /\ resp.name = "c" /\ resp.description = "d1"
    /\ resp.customization_schema = "s1" /\ resp.display_order = 1
    /\ styles[resp.style_id].name # "c"
    /\ styles[resp.style_id].description = None
    /\ styles[resp.style_id].customization_schema = "s0"
    /\ styles[resp.style_id].display_order = 0


\* C2 as claimed: with concurrent requests, every committed state has exactly one
\* default style for each product that has a style.
C2_Original == \A p \in Products : ExactlyOneDefault(styles, p)

\* C3: whatever the interleaving, no committed state has two default styles of
\* one product.
C3_AtMostOneDefault == \A p \in Products : Cardinality(DefaultsOf(styles, p)) <= 1

\* the index has rejected a request that would have committed a second default
C3_Witness ==
    /\ resp.op \in {"create_style", "set_default_style", "update_style"}
    /\ resp.code = HTTP_500
    /\ Cardinality(DefaultsOf(styles, "p1")) = 1


\* C7: cancel_job sets a job to CANCELLED only when its status is PENDING or
\* QUEUED; for a job in any other status, CANCELLED included, it answers 400
\* with a detail that names the current status and leaves the jobs unchanged.
C7_CancelOnlyPendingOrQueued ==
    [][(resp'.op = "cancel_job" /\ resp'.id \in DOMAIN jobs)
       => IF jobs[resp'.id].status \in {"PENDING", "QUEUED"}
          THEN /\ resp'.code = HTTP_200
               /\ jobs'[resp'.id].status = "CANCELLED"
          ELSE /\ resp'.code = HTTP_400
               /\ Len(resp'.detail) = 2
               /\ resp'.detail[2] = jobs[resp'.id].status
               /\ jobs' = jobs]_vars

\* a second cancel of a cancelled job was refused, and so was the cancel of a
\* job the worker has finished
C7_Witness ==
    /\ resp.op = "cancel_job"
    /\ resp.code = HTTP_400
    /\ resp.id \in DOMAIN jobs
    /\ jobs[resp.id].status = "CANCELLED"
    /\ resp.detail = CannotCancel("CANCELLED")

\* C8: a successful cancel_job changes the status of the job to CANCELLED and
\* nothing else: no other field of the job, and no other job.
C8_CancelChangesOnlyStatus ==
    [][(resp'.op = "cancel_job" /\ resp'.code = HTTP_200)
       => jobs' = [jobs EXCEPT ![resp'.id].status = "CANCELLED"]]_vars

\* a queued job, which has a worker, was cancelled while another job exists
C8_Witness ==
    /\ resp.op = "cancel_job"
    /\ resp.code = HTTP_200
    /\ jobs[resp.id].status = "CANCELLED"
    /\ jobs[resp.id].worker_id = "w1"
    /\ \E k \in DOMAIN jobs : k # resp.id /\ jobs[k].status = "PROCESSING"

\* C9: a job created by create_job is PENDING with progress 0, retry_count 0,
\* max_retries 3 and every other field empty, whatever jobs the configuration
\* already has.
C9_CreatedJobIsPending ==
    [][(resp'.op = "create_job" /\ resp'.code = HTTP_201)
       => /\ resp'.id \notin DOMAIN jobs
          /\ DOMAIN jobs' = DOMAIN jobs \cup {resp'.id}
          /\ jobs'[resp'.id].status = "PENDING"
          /\ jobs'[resp'.id].progress = 0
          /\ jobs'[resp'.id].retry_count = 0
          /\ jobs'[resp'.id].max_retries = 3
          /\ jobs'[resp'.id].result_url = None
          /\ jobs'[resp'.id].error_code = None
          /\ jobs'[resp'.id].error_message = None
          /\ jobs'[resp'.id].worker_id = None
          /\ jobs'[resp'.id].started_at = None
          /\ jobs'[resp'.id].completed_at = None
          /\ resp'.body = <<jobs'[resp'.id]>>]_vars

\* a job was created for a configuration that already has a job that failed
C9_Witness ==
    /\ resp.op = "create_job"
    /\ resp.code = HTTP_201
    /\ resp.id \in DOMAIN jobs
    /\ \E k \in DOMAIN jobs :
        /\ k # resp.id
        /\ jobs[k].configuration_id = jobs[resp.id].configuration_id
        /\ jobs[k].status = "FAILED"

\* C10: create_job adds a job only for a configuration that exists and has a
\* client; a missing configuration is answered 404 and a configuration without
\* a client 400, and then no job is added and none is changed.
C10_CreateJobNeedsClient ==
    [][resp'.op = "create_job"
       => LET c == IF resp'.code = HTTP_201 THEN jobs'[resp'.id].configuration_id
                   ELSE resp'.id
          IN  IF c \notin DOMAIN configurations
              THEN resp'.code = HTTP_404 /\ jobs' = jobs
              ELSE IF configurations[c].client_id = None
              THEN resp'.code = HTTP_400 /\ jobs' = jobs
              ELSE resp'.code = HTTP_201]_vars

\* with a job stored, a create_job for the configuration without a client was
\* answered 400
C10_Witness ==
    /\ resp.op = "create_job"
    /\ resp.code = HTTP_400
    /\ resp.id \in DOMAIN configurations
    /\ configurations[resp.id].client_id = None
    /\ jobs # <<>>

\* C11 as claimed: A is created default; B is created default and A is no longer
\* default; DELETE A is rejected with 400; DELETE B is rejected with 400;
\* set-default(A) succeeds; the last DELETE B returns 204.
C11_Original ==
    /\ served = 1 => (resp.code = HTTP_201 /\ styles[1].is_default)
    /\ served = 2 => (resp.code = HTTP_201 /\ styles[2].is_default /\ ~styles[1].is_default)
    /\ served = 3 => resp.code = HTTP_400
    /\ served = 4 => resp.code = HTTP_400
    /\ served = 5 => resp.code = HTTP_200
    /\ served = 6 => resp.code = HTTP_204

\* C11 amended: A is created default; B is created default and A is no longer
\* default; DELETE A returns 204, A being neither default nor referenced, and A
\* is gone; DELETE B is rejected with 400; set-default(A) returns 404; the last
\* DELETE B is rejected with 400 and B is still the default.
C11_Scenario ==
    /\ served = 1 => (resp.code = HTTP_201 /\ styles[1].is_default)
    /\ served = 2 => (resp.code = HTTP_201 /\ styles[2].is_default /\ ~styles[1].is_default)
    /\ served = 3 => (resp.code = HTTP_204 /\ DOMAIN styles = {2})
    /\ served = 4 => (resp.code = HTTP_400 /\ DOMAIN styles = {2})
    /\ served = 5 => (resp.code = HTTP_404 /\ DOMAIN styles = {2})
    /\ served = 6 => (resp.code = HTTP_400 /\ DOMAIN styles = {2} /\ styles[2].is_default)

\* the scenario has run to its last request
C11_Witness ==
    /\ served = 6
    /\ resp.op = "delete_style" /\ resp.style_id = 2 /\ resp.code = HTTP_400
    /\ DOMAIN styles = {2}

\* The same set-default request, served once more after the response
SetDefaultAgain ==
    Run(styles', configurations', nextStyleId',
        Request("set_default_style",
                [NoArgs EXCEPT !.product_id = resp'.product_id, !.style_id = resp'.style_id]))

\* C12: set_default_style on a style of the product answers 200 and leaves that
\* style the only default of the product; on the style that is already the
\* default it changes no row; served a second time it answers 200 again and
\* leaves the state of the first.
C12_SetDefaultIdempotent ==
    [][(/\ resp'.op = "set_default_style"
        /\ StyleFound(styles, resp'.product_id, resp'.style_id))
       => (/\ resp'.code = HTTP_200
           /\ DOMAIN styles' = DOMAIN styles
           /\ DefaultsOf(styles', resp'.product_id) = {resp'.style_id}
           /\ \A i \in DOMAIN styles :
                styles'[i] = [styles[i] EXCEPT !.is_default = styles'[i].is_default]
           /\ styles[resp'.style_id].is_default => styles' = styles
           /\ SetDefaultAgain.st = styles'
           /\ SetDefaultAgain.r.code = HTTP_200)]_vars

\* set-default has succeeded on the second style of a product, and the first
\* style, which was created as the default, is no longer default
C12_Witness ==
    /\ resp.op = "set_default_style" /\ resp.code = HTTP_200
    /\ resp.style_id = 2
    /\ StylesOf(styles, resp.product_id) = {1, 2}
    /\ styles[2].is_default /\ ~styles[1].is_default

\* The status of GET style for the request just answered, asked after it
GetStyleAfter ==
    Run(styles', configurations', nextStyleId',
        Request("get_style",
                [NoArgs EXCEPT !.product_id = resp'.product_id, !.style_id = resp'.style_id])).r.code

\* C13: delete_style of a non-default style that a configuration references is
\* answered 409 and leaves the styles and the configurations as they were; of a
\* non-default style that no configuration references it is answered 204, the
\* style is gone and GET style answers 404.
C13_DeleteReferencedRejected ==
    [][(/\ resp'.op = "delete_style"
        /\ StyleFound(styles, resp'.product_id, resp'.style_id)
        /\ ~styles[resp'.style_id].is_default)
       => IF \E c \in DOMAIN configurations : configurations[c].style_id = resp'.style_id
          THEN /\ resp'.code = HTTP_409
               /\ styles' = styles
               /\ configurations' = configurations
          ELSE /\ resp'.code = HTTP_204
               /\ styles' = [i \in DOMAIN styles \ {resp'.style_id} |-> styles[i]]
               /\ configurations' = configurations
               /\ GetStyleAfter = HTTP_404]_vars

\* the 409 for a non-default style that a configuration references
C13_Witness ==
    /\ resp.op = "delete_style" /\ resp.code = HTTP_409
    /\ StyleFound(styles, resp.product_id, resp.style_id)
    /\ ~styles[resp.style_id].is_default
    /\ \E c \in DOMAIN configurations : configurations[c].style_id = resp.style_id

\* C14: a successful create_style on a product that has styles stores the new
\* style with the flag the request carried: with a true flag the new style is
\* the default and every other style of the product is not; otherwise the new
\* style is not default and the styles that existed are unchanged.
C14_CreateHonoursFlag ==
    [][(/\ resp'.op = "create_style"
        /\ resp'.code = HTTP_201
        /\ StylesOf(styles, resp'.product_id) # {})
       => (/\ resp'.style_id \notin DOMAIN styles
           /\ DOMAIN styles' = DOMAIN styles \cup {resp'.style_id}
           /\ styles'[resp'.style_id].product_id = resp'.product_id
           /\ IF resp'.is_default \in {"true", "True"}
              THEN /\ styles'[resp'.style_id].is_default
                   /\ \A i \in DOMAIN styles :
                        styles'[i] = IF styles[i].product_id = resp'.product_id
                                     THEN [styles[i] EXCEPT !.is_default = FALSE]
                                     ELSE styles[i]
              ELSE /\ ~styles'[resp'.style_id].is_default
                   /\ \A i \in DOMAIN styles : styles'[i] = styles[i])]_vars

\* the second style of a product, created with is_default = "True", is the
\* default and the first no longer is
C14_Witness ==
    /\ resp.op = "create_style" /\ resp.code = HTTP_201 /\ resp.is_default = "True"
    /\ resp.style_id = 2
    /\ StylesOf(styles, resp.product_id) = {1, 2}
    /\ styles[2].is_default /\ ~styles[1].is_default

\* C15: a successful update_style with is_default=true on a style that is not
\* the default makes it the default and leaves no other style of the product
\* default; the styles of other products keep their flags.
C15_UpdateMakesDefault ==
    [][(/\ resp'.op = "update_style"
        /\ resp'.code = HTTP_200
        /\ resp'.is_default = "true"
        /\ StyleFound(styles, resp'.product_id, resp'.style_id)
        /\ ~styles[resp'.style_id].is_default)
       => (/\ DOMAIN styles' = DOMAIN styles
           /\ DefaultsOf(styles', resp'.product_id) = {resp'.style_id}
           /\ \A i \in DOMAIN styles :
                styles[i].product_id # resp'.product_id => styles'[i] = styles[i])]_vars

\* an update with is_default=true has succeeded on the second style of a
\* product whose first style was created as the default
C15_Witness ==
    /\ resp.op = "update_style" /\ resp.code = HTTP_200 /\ resp.is_default = "true"
    /\ resp.style_id = 2
    /\ StylesOf(styles, resp.product_id) = {1, 2}
    /\ styles[2].is_default /\ ~styles[1].is_default

\* Some style of product p other than style id has the name
NameTaken(st, p, name, id) ==
    \E i \in DOMAIN st : i # id /\ st[i].product_id = p /\ st[i].name = name

\* C16: no two styles of one product ever have the same name.  A create_style
\* on an existing product, with a valid file and schema, whose name another
\* style of the product has is answered 409, and so is an update_style that
\* renames a style to such a name; both store nothing.  A create_style is not
\* answered 409 for a name only styles of other products have, and an
\* update_style that submits the style's own name is not answered 409 and
\* leaves the name.
C16_NamesUniquePerProduct ==
    /\ [](\A i, j \in DOMAIN styles :
            (i # j /\ styles[i].product_id = styles[j].product_id)
                => styles[i].name # styles[j].name)
    /\ [][(/\ resp'.op = "create_style"
           /\ resp'.product_id \in Products
           /\ resp'.file = "ok" /\ resp'.customization_schema # BadSchema)
          => IF NameTaken(styles, resp'.product_id, resp'.name, NoId)
             THEN resp'.code = HTTP_409 /\ styles' = styles
             ELSE resp'.code = HTTP_201]_vars
    /\ [][(/\ resp'.op = "update_style"
           /\ StyleFound(styles, resp'.product_id, resp'.style_id)
           /\ resp'.name # None)
          => IF NameTaken(styles, resp'.product_id, resp'.name, resp'.style_id)
             THEN resp'.code = HTTP_409 /\ styles' = styles
             ELSE /\ resp'.code # HTTP_409
                  /\ resp'.name = styles[resp'.style_id].name
                        => styles'[resp'.style_id].name = resp'.name]_vars

\* a rename to the name of the other style of the product was answered 409
C16_Witness ==
    /\ resp.op = "update_style" /\ resp.code = HTTP_409
    /\ StyleFound(styles, resp.product_id, resp.style_id)
    /\ NameTaken(styles, resp.product_id, resp.name, resp.style_id)
    /\ styles[resp.style_id].name # resp.name

\* C17: get_style, update_style, delete_style and set_default_style that name
\* an existing product and a style of another product are answered 404 and
\* change neither the styles nor the configurations.
C17_WrongProductNotFound ==
    [][(/\ resp'.op \in {"get_style", "update_style", "delete_style", "set_default_style"}
        /\ resp'.product_id \in Products
        /\ resp'.style_id \in DOMAIN styles
        /\ styles[resp'.style_id].product_id # resp'.product_id)
       => (/\ resp'.code = HTTP_404
           /\ styles' = styles
           /\ configurations' = configurations)]_vars

\* the 404 of a set-default through a product that has a style of its own, for
\* the style of the other product
C17_Witness ==
    /\ resp.op = "set_default_style" /\ resp.code = HTTP_404
    /\ resp.product_id \in Products
    /\ resp.style_id \in DOMAIN styles
    /\ styles[resp.style_id].product_id # resp.product_id
    /\ StylesOf(styles, resp.product_id) # {}

\* C18: a configuration is stored only if its product exists, its style is a
\* style of that product and its config_data validates against the schema of
\* that style: a missing product and a style the product does not own are
\* answered 404, config_data that does not validate 422, and then nothing is
\* stored; a request that passes the three is stored as sent, unless its
\* client is not stored and the database refuses it, which is answered 500.
C18_ConfigurationValidated ==
    [][resp'.op = "create_configuration"
       => LET p == resp'.product_id
              i == resp'.style_id
              stored == /\ resp'.id \notin DOMAIN configurations
                        /\ DOMAIN configurations' = DOMAIN configurations \cup {resp'.id}
                        /\ \A c \in DOMAIN configurations : configurations'[c] = configurations[c]
                        /\ configurations'[resp'.id] =
                            [product_id |-> p, style_id |-> i, client_id |-> resp'.client_id,
                             config_data |-> resp'.config_data]
          IN  IF p \notin Products
              THEN resp'.code = HTTP_404 /\ configurations' = configurations
              ELSE IF i \notin DOMAIN styles \/ styles[i].product_id # p
              THEN resp'.code = HTTP_404 /\ configurations' = configurations
              ELSE IF \/ resp'.config_data \notin {"x0", "x1"}
                      \/ (resp'.config_data = "x1" /\ styles[i].customization_schema # "s1")
              THEN resp'.code = HTTP_422 /\ configurations' = configurations
              ELSE IF resp'.client_id = MissingClient /\ resp'.code # HTTP_201
              THEN resp'.code = HTTP_500 /\ configurations' = configurations
              ELSE resp'.code = HTTP_201 /\ stored]_vars

\* the 422 for config_data that the schema of another style of the product
\* accepts, with a configuration already stored
C18_Witness ==
    /\ resp.op = "create_configuration" /\ resp.code = HTTP_422
    /\ resp.style_id = 1 /\ resp.config_data = "x1"
    /\ styles[2].product_id = resp.product_id
    /\ styles[2].customization_schema = "s1"
    /\ configurations # <<>>

\* C19: every stored job references a stored configuration; a delete of a
\* configuration that is answered 204 removes the configuration and exactly
\* the jobs that referenced it, whatever their status, and get_job answers 404
\* for a job that is not stored.
C19_JobsFollowConfiguration ==
    /\ [](\A j \in DOMAIN jobs : jobs[j].configuration_id \in DOMAIN configurations)
    /\ [][(resp'.op = "delete_configuration" /\ resp'.code = HTTP_204)
          => (/\ resp'.id \in DOMAIN configurations
              /\ resp'.id \notin DOMAIN configurations'
              /\ DOMAIN jobs' = {j \in DOMAIN jobs : jobs[j].configuration_id # resp'.id}
              /\ \A j \in DOMAIN jobs' : jobs'[j] = jobs[j])]_vars
    /\ [][resp'.op = "get_job"
          => (resp'.code = IF resp'.id \in DOMAIN jobs THEN HTTP_200 ELSE HTTP_404)]_vars

\* get_job has answered 404 for a job that was created and went with its
\* configuration
C19_Witness ==
    /\ resp.op = "get_job" /\ resp.code = HTTP_404
    /\ resp.id < nextJobId
    /\ nextJobId > 2
    /\ jobs = <<>>
    /\ 1 \notin DOMAIN configurations

\* The operations of the jobs API
JobOperations == {"create_job", "get_job", "cancel_job"}

\* C20: a step of create_job, get_job or cancel_job keeps every stored job;
\* create_job and get_job leave every stored job as it is; the status of a
\* stored job changes only when cancel_job answers 200 for that job, from
\* PENDING or QUEUED to CANCELLED; a COMPLETED, FAILED or CANCELLED job keeps
\* its status.
C20_OnlyCancelChangesStatus ==
    [][resp'.op \in JobOperations
       => \A j \in DOMAIN jobs :
            /\ j \in DOMAIN jobs'
            /\ (resp'.op \in {"create_job", "get_job"} => jobs'[j] = jobs[j])
            /\ (jobs'[j].status # jobs[j].status
                  => /\ resp'.op = "cancel_job"
                     /\ resp'.code = HTTP_200
                     /\ resp'.id = j
                     /\ jobs[j].status \in {"PENDING", "QUEUED"}
                     /\ jobs'[j].status = "CANCELLED")
            /\ (jobs[j].status \in {"COMPLETED", "FAILED", "CANCELLED"}
                  => jobs'[j].status = jobs[j].status)]_vars

\* cancel_job was refused for a completed job, which is still completed, while
\* the other job is still cancelled
C20_Witness ==
    /\ resp.op = "cancel_job"
    /\ resp.code = HTTP_400
    /\ resp.id \in DOMAIN jobs
    /\ jobs[resp.id].status = "COMPLETED"
    /\ \E k \in DOMAIN jobs : k # resp.id /\ jobs[k].status = "CANCELLED"

\* The keys of the JSON body of an error response.
\* raise HTTPException(status_code=..., detail=...): main.py registers no
\* handler for HTTPException, so the framework answers {"detail": detail}
HTTPExceptionBody == {"detail"}

\* entity_not_found_error_handler
EntityNotFoundBody == {"detail", "error", "message", "entity", "id"}

\* The keys of the body of an error response of the jobs API and of
\* delete_configuration: jobs.py raises HTTPException for each of its errors,
\* delete_configuration raises EntityNotFoundError through ensure_exists
ErrorBody(r) ==
    IF r.op \in JobOperations /\ r.code \in {HTTP_400, HTTP_404}
    THEN HTTPExceptionBody
    ELSE IF r.op = "delete_configuration" /\ r.code = HTTP_404
    THEN EntityNotFoundBody
    ELSE {}

\* C21: the body of every 400, 404, 409 and 422 response carries the key
\* `error`.
C21_Original ==
    resp.code \in {HTTP_400, HTTP_404, HTTP_409, HTTP_422} => "error" \in ErrorBody(resp)

\* The blob storage calls of the last request that failed
FailedCalls(log) == {i \in 1 .. Len(log) : ~log[i][2]}

\* C22 as stated: a request one of whose blob storage calls failed answers an
\* error status.
C22_Original == FailedCalls(resp.blob_log) # {} => resp.code >= HTTP_400

\* C22: a request whose upload failed answers 500; a request makes at most one
\* upload call and at most one delete call, so no failed call is retried; a
\* delete call is made only after the request's database work has succeeded,
\* and the request then answers its success status whether the delete call
\* succeeded or failed.
C22_UploadFailureReported ==
    LET log == resp.blob_log IN
    /\ \A i \in 1 .. Len(log) : (log[i][1] = "upload" /\ ~log[i][2]) => resp.code = HTTP_500
    /\ \A i, j \in 1 .. Len(log) : log[i][1] = log[j][1] => i = j
    /\ \A i \in 1 .. Len(log) :
        log[i][1] = "delete" =>
            resp.code = IF resp.op = "delete_style" THEN HTTP_204 ELSE HTTP_200

\* delete_style answered 204 although its blob delete call failed
C22_Witness ==
    /\ resp.op = "delete_style"
    /\ resp.code = HTTP_204
    /\ resp.blob_log = <<<<"delete", FALSE>>>>

\* C23: a successful update_style keeps every field of the style that the
\* request does not supply (name, description, customization_schema,
\* display_order, is_default, template_blob_path), adds and removes no style,
\* changes no field other than is_default of another style, and, when it
\* supplies no is_default, changes no is_default flag at all.
C23_UpdateKeepsOtherFields ==
    [][(resp'.op = "update_style" /\ resp'.code = HTTP_200)
       => LET i == resp'.style_id
              old == styles[i]
              new == styles'[i]
          IN  /\ DOMAIN styles' = DOMAIN styles
              /\ new.product_id = old.product_id
              /\ (resp'.name = None => new.name = old.name)
              /\ (resp'.description = None => new.description = old.description)
              /\ (resp'.customization_schema = None
                    => new.customization_schema = old.customization_schema)
              /\ (resp'.display_order = NoOrder => new.display_order = old.display_order)
              /\ (resp'.is_default = None => new.is_default = old.is_default)
              /\ (resp'.file = None => new.template_blob_path = old.template_blob_path)
              /\ \A j \in DOMAIN styles \ {i} :
                    styles'[j] = [styles[j] EXCEPT !.is_default = styles'[j].is_default]
              /\ (resp'.is_default = None
                    => \A j \in DOMAIN styles : styles'[j].is_default = styles[j].is_default)]_vars

\* an update that supplied only a name was served for a style whose
\* description and display order an earlier update had set
C23_Witness ==
    /\ resp.op = "update_style" /\ resp.code = HTTP_200
    /\ resp.name = "c"
    /\ resp.description = None /\ resp.customization_schema = None
    /\ resp.display_order = NoOrder /\ resp.is_default = None /\ resp.file = None
    /\ styles[resp.style_id].name = "c"
    /\ styles[resp.style_id].description = "d1"
    /\ styles[resp.style_id].display_order = 1

\* C24: ensure_unique raises EntityAlreadyExistsError, with the entity name,
\* the field and the value, exactly when some stored entity has the value in
\* the field, satisfies every scope filter and is not the excluded one;
\* otherwise it returns.
C24_Original ==
    resp.op = "ensure_unique"
    => resp.raised =
        IF \E i \in DOMAIN styles :
              /\ styles[i][resp.field] = resp.value
              /\ \A f \in resp.scope_filters : styles[i][f.column] = f.value
              /\ (resp.exclude_id # NoId => i # resp.exclude_id)
        THEN <<"EntityAlreadyExistsError", "Style", resp.field, resp.value>>
        ELSE <<>>

\* The request's write that makes its style the default is pending
SetPending(r) ==
    r.style.is_default /\ (r.inserted \/ r.style.is_default # r.loaded.is_default)

\* C25: with one request in flight, whenever the write that makes the
\* request's style the default is pending, the write that clears every other
\* default of the product has been issued in the same transaction; the table
\* after each write of the transaction has at most one default per product,
\* and so has the committed table; no request is answered 500.
C25_ClearBeforeSet ==
    LET r == reqs[1] IN
    /\ SetPending(r)
        => (DefaultsOf(styles, r.product_id) \ {r.style_id}) \subseteq r.cleared
    /\ IxStylesProductDefault(FirstWrite(styles, r))
    /\ IxStylesProductDefault(Flushed(styles, r))
    /\ IxStylesProductDefault(styles)
    /\ resp.code # HTTP_500

\* update_style is about to commit the default of style 2 while the committed
\* default is style 1, whose clearing it has issued
C25_Witness ==
    /\ reqs[1].op = "update_style" /\ reqs[1].pc = "commit"
    /\ reqs[1].style_id = 2
    /\ SetPending(reqs[1])
    /\ reqs[1].cleared = {1}
    /\ styles[1].is_default

\* C26: a create_style whose upload failed answers 500 and leaves table
\* styles as it was: no style is added and no is_default flag changes.
C26_FailedCreateRolledBack ==
    [][(resp'.op = "create_style" /\ resp'.blob_log = <<<<"upload", FALSE>>>>)
       => /\ resp'.code = HTTP_500
          /\ styles' = styles]_vars

\* a create_style that asked for is_default "true" failed at the upload, and
\* the product's earlier style is still its default
C26_Witness ==
    /\ resp.op = "create_style" /\ resp.code = HTTP_500
    /\ resp.blob_log = <<<<"upload", FALSE>>>>
    /\ resp.is_default = "true"
    /\ resp.style_id \notin DOMAIN styles
    /\ \E i \in DOMAIN styles : styles[i].product_id = resp.product_id /\ styles[i].is_default

\* C27: an update_style whose upload failed answers 500; the fields it
\* supplied (name, description, customization_schema, display_order,
\* is_default) are stored, the other defaults of the product are cleared when
\* it made the style the default, template_blob_path and every field it did
\* not supply are as before, the other styles are as before but for
\* is_default, and the product has exactly one default style.
C27_FailedUploadKeepsUpdate ==
    [][(resp'.op = "update_style" /\ resp'.blob_log = <<<<"upload", FALSE>>>>)
       => LET i == resp'.style_id
              old == styles[i]
              new == styles'[i]
          IN  /\ resp'.code = HTTP_500
              /\ DOMAIN styles' = DOMAIN styles
              /\ new.template_blob_path = old.template_blob_path
              /\ new.name = IF resp'.name = None THEN old.name ELSE resp'.name
              /\ new.description =
                    IF resp'.description = None THEN old.description ELSE resp'.description
              /\ new.customization_schema =
                    IF resp'.customization_schema = None THEN old.customization_schema
                    ELSE resp'.customization_schema
              /\ new.display_order =
                    IF resp'.display_order = NoOrder THEN old.display_order
                    ELSE resp'.display_order
              /\ new.is_default =
                    IF resp'.is_default = None THEN old.is_default
                    ELSE resp'.is_default = "true"
              /\ \A j \in DOMAIN styles \ {i} :
                    /\ styles'[j] = [styles[j] EXCEPT !.is_default = styles'[j].is_default]
                    /\ styles'[j].is_default = (styles[j].is_default /\ ~new.is_default)
              /\ \A p \in Products : ExactlyOneDefault(styles', p)]_vars

\* the upload of an update that renamed style 2 and made it the default
\* failed: the answer is 500, style 2 is renamed and the only default
C27_Witness ==
    /\ resp.op = "update_style" /\ resp.code = HTTP_500
    /\ resp.blob_log = <<<<"upload", FALSE>>>>
    /\ resp.style_id = 2 /\ resp.name = "c" /\ resp.is_default = "true"
    /\ served = 1
    /\ styles[2].name = "c" /\ styles[2].is_default /\ ~styles[1].is_default

\* C28: with a delete_style and a create_configuration in flight, every
\* stored configuration refers to a stored style.
C28_Original == \A c \in DOMAIN configurations : configurations[c].style_id \in DOMAIN styles

\* C29: a job becomes CANCELLED only from PENDING or QUEUED, also when the
\* worker changes the status between the read and the commit of cancel_job.
C29_Original ==
    [][\A j \in DOMAIN jobs \cap DOMAIN jobs' :
          (jobs'[j].status = "CANCELLED" /\ jobs[j].status # "CANCELLED")
              => jobs[j].status \in {"PENDING", "QUEUED"}]_vars

\* The operations of the styles API that write
StyleWrites == {"create_style", "update_style", "delete_style", "set_default_style"}

\* C30: a create_style, update_style, delete_style or set_default_style
\* addressed to a product leaves every style of every other product as it is,
\* removes none of them and adds no style to another product.
C30_OtherProductsUntouched ==
    [][resp'.op \in StyleWrites
       => /\ \A i \in DOMAIN styles :
                styles[i].product_id # resp'.product_id
                    => (i \in DOMAIN styles' /\ styles'[i] = styles[i])
          /\ \A i \in DOMAIN styles' \ DOMAIN styles :
                styles'[i].product_id = resp'.product_id]_vars

\* set_default_style was served for the style of one product while the other
\* product has a default style of its own
C30_Witness ==
    /\ resp.op = "set_default_style" /\ resp.code = HTTP_200
    /\ styles[resp.style_id].is_default
    /\ \E i \in DOMAIN styles :
        styles[i].product_id # resp.product_id /\ styles[i].is_default

====
